---- MODULE Spec2Model ----
(***************************************************************************)
(* A model of pointlander/auto (src/main.go).  The file holds two          *)
(* programs.  The first (lines 1-348) ingests a corpus into an order-4     *)
(* backoff Markov model, trains 256 autoencoders online (one per byte      *)
(* value) on the normalized count vector of the current context, and then  *)
(* samples 33 bytes from a prompt.  The second (lines 350-561) trains on a *)
(* buffered Histogram of the last symbols instead.                         *)
(*                                                                         *)
(* The tensor engine (tf64) is external.  A floating point quotient a/b is *)
(* kept as the pair <<a, b>>, a comparison of quotients is done by cross   *)
(* multiplication, and the parameters of an autoencoder are kept as the    *)
(* sequence of optimizer updates applied to its initial weights.           *)
(***************************************************************************)
EXTENDS Integers, Sequences, FiniteSets, TLC

\* const order (the number of Markov orders and the width of a Markov key)
order == 4

\* byte values are 0..MaxSym (0..255 in the program); one autoencoder per value
MaxSym == 2
\* the training prefix files[0].Data[:256*1024]
TrainLen == 3
\* the number of generation steps (for range 33)
GenSteps == 1
\* the largest Size given to NewHistogram, and the number of Add calls followed
MaxSize == 3
MaxAdds == 4

\* len(Histogram.Buffer)
BufferLen == 128
\* Histogram.Vector holds bytes: ++ wraps at 256
ByteMod == 256

Symbols == 0..MaxSym
Orders == 0..(order - 1)
\* the corpus is long enough to fill the longest context
DataLen == order
\* the losses the engine may report for a candidate (sums of squares, >= 0)
Losses == {0, 1}
\* rng.Float64() is selected = u / Cardinality(Draws), u \in Draws
Draws == 0..1
\* the prompts tried ("What is the meaning of life?" in the program)
Prompts == {<<1>>, <<2, 1>>}

VARIABLES
    pc,          \* where main is: load, train, replay, generate, done, aborted
    Data,        \* files[0].Data
    Model,       \* files[0].Model: per order, a map Markov -> [256]uint32
    loadMarkov,  \* load's local markov (line 135)
    loaded,      \* number of bytes load has consumed
    loadTrace,   \* history: load's working context before each position
    markov,      \* main's markov (lines 199, 286)
    autos,       \* autos[v]: Iteration and the updates applied to its Set
    iteration,   \* main's iteration
    trained,     \* number of training positions consumed
    passes,      \* number of forward passes of an autoencoder run so far
    prompt,      \* the prompt
    str,         \* the output
    replayed,    \* number of prompt bytes replayed into markov
    step,        \* number of generation steps done
    gen,         \* the locals of the last generation step
    h,           \* second program: the Histogram
    added        \* history: the symbols given to Histogram.Add, in order

vars == <<pc, Data, Model, loadMarkov, loaded, loadTrace, markov, autos,
          iteration, trained, passes, prompt, str, replayed, step, gen, h, added>>

RECURSIVE SumTo(_, _)
\* f[0] + ... + f[n]
SumTo(f, n) == IF n < 0 THEN 0 ELSE f[n] + SumTo(f, n - 1)

\* markov := [order]Markov{}
ZeroMarkov == [i \in Orders |-> [j \in Orders |-> 0]]

RECURSIVE shiftFrom(_, _, _, _)
\* for ii, value := range m[:i+1] { m[ii], state = state, value }, from ii on
shiftFrom(m, state, ii, i) ==
    IF ii > i THEN m
    ELSE shiftFrom([m EXCEPT ![ii] = state], m[ii], ii + 1, i)

\* Iterate with the inner loop ranging over the whole of markov[i]
IterateWhole(m, state) == [i \in Orders |-> shiftFrom(m[i], state, 0, order - 1)]

\* func Iterate(markov *[order]Markov, state byte)
Iterate(m, state) == [i \in Orders |-> shiftFrom(m[i], state, 0, i)]

\* A nil []float32 / []uint32: a slice of length 0
Nil == <<>>

\* result[ii] = float32(value) / sum, with sum the sum of the vector
Normalize(vector) ==
    LET sum == SumTo(vector, MaxSym)
    IN  [ii \in Symbols |-> <<vector[ii], sum>>]

RECURSIVE lookupFrom(_, _, _)
\* the loop of Lookup from its n-th iteration on: i = order - 1 - n
lookupFrom(m, model, n) ==
    IF n >= order THEN Nil
    ELSE LET i == order - 1 - n
         IN  IF m[i] \in DOMAIN model[i]
             THEN Normalize(model[i][m[i]])
             ELSE lookupFrom(m, model, n + 1)

RECURSIVE lookupUp(_, _, _)
\* Lookup without "i = order - 1 - i": the orders are tried from 0 up
lookupUp(m, model, i) ==
    IF i >= order THEN Nil
    ELSE IF m[i] \in DOMAIN model[i]
         THEN Normalize(model[i][m[i]])
         ELSE lookupUp(m, model, i + 1)

\* Lookup trying the shortest order first
LookupAscending(m, model) == lookupUp(m, model, 0)

\* func Lookup(markov *[order]Markov, model *Model) []float32
Lookup(m, model) == lookupFrom(m, model, 0)

\* load's count step storing a fresh vector on every symbol
CountFresh(table, key, value) ==
    LET vector == [s \in Symbols |-> 0]
    IN  [k \in DOMAIN table \cup {key} |->
            IF k = key THEN [vector EXCEPT ![value] = @ + 1] ELSE table[k]]

\* vector := book.Model[ii][markov[ii]]; make if nil; vector[value]++; store
Count(table, key, value) ==
    LET vector == IF key \in DOMAIN table THEN table[key]
                  ELSE [s \in Symbols |-> 0]
    IN  [k \in DOMAIN table \cup {key} |->
            IF k = key THEN [vector EXCEPT ![value] = @ + 1] ELSE table[k]]

\* load's shift ranging over the whole of markov[ii]
loadShiftWhole(m, value, ii) == shiftFrom(m, value, 0, order - 1)

\* state := value; for iii, value := range markov[ii][:ii+1] { ... }
loadShift(m, value, ii) == shiftFrom(m, value, 0, ii)

\* the exponent of pow taken from the global iteration
powGlobal(value) == iteration + 1

\* pow's exponent: float64(autos[value].Iteration+1)
powExponent(value) == autos[value].Iteration + 1

\* a training step that updates every autoencoder
TrainAll(a, value, vector) ==
    [w \in Symbols |->
        [Iteration |-> a[w].Iteration + 1,
         Set |-> Append(a[w].Set, [pow |-> powExponent(value), in |-> vector])]]

\* the optimizer update of autos[value] and autos[value].Iteration++
Train(a, value, vector) ==
    [a EXCEPT ![value] =
        [Iteration |-> @.Iteration + 1,
         Set |-> Append(@.Set, [pow |-> powExponent(value), in |-> vector])]]

RECURSIVE maxFrom(_, _, _)
\* max := 0.0; for _, value := range distribution { if value > max { max = value } }
maxFrom(losses, i, max) ==
    IF i > MaxSym THEN max
    ELSE maxFrom(losses, i + 1, IF losses[i] > max THEN losses[i] ELSE max)

RECURSIVE selectLE(_, _, _, _, _)
\* the selection loop with selected <= total
selectLE(dist, sum, u, i, total) ==
    IF i > MaxSym \/ sum = 0 THEN <<>>
    ELSE LET t == total + dist[i]
         IN  IF u * sum <= t * Cardinality(Draws) THEN <<i>>
             ELSE selectLE(dist, sum, u, i + 1, t)

\* Select with <= in place of <
SelectInclusive(dist, sum, u) == selectLE(dist, sum, u, 0, 0)

RECURSIVE selectFrom(_, _, _, _, _)
\* total += value / sum; if selected < total { append; Iterate; break }
\* total is kept as the numerator over sum.  With sum = 0 every value/sum is
\* 0/0 = NaN, total is NaN and selected < total is false for every i.
selectFrom(dist, sum, u, i, total) ==
    IF i > MaxSym \/ sum = 0 THEN <<>>
    ELSE LET t == total + dist[i]
         IN  IF u * sum < t * Cardinality(Draws) THEN <<i>>
             ELSE selectFrom(dist, sum, u, i + 1, t)

\* the bytes the selection loop appends: <<i>> or none
Select(dist, sum, u) == selectFrom(dist, sum, u, 0, 0)

\* NewHistogram(size)
NewHistogram(size) ==
    [Vector |-> [s \in Symbols |-> 0],
     Buffer |-> [i \in 0..(BufferLen - 1) |-> 0],
     Index |-> 0,
     Size |-> size]

\* func (h *Histogram) Add(s byte)
Add(hist, s) ==
    LET index == (hist.Index + 1) % hist.Size
        symbol == hist.Buffer[index]
        dec == IF hist.Vector[symbol] > 0
               THEN [hist.Vector EXCEPT ![symbol] = @ - 1]
               ELSE hist.Vector
    IN  [Vector |-> [dec EXCEPT ![s] = (@ + 1) % ByteMod],
         Buffer |-> [hist.Buffer EXCEPT ![index] = s],
         Index |-> index,
         Size |-> hist.Size]

\* the locals of a generation step before the first step
NoGen == [vector |-> Nil, losses |-> <<>>, distribution |-> <<>>,
          sum |-> 0, selected |-> 0, picked |-> <<>>]

\* the values common to both programs' start
InitCommon ==
    /\ Model = [i \in Orders |-> <<>>]
    /\ loadMarkov = ZeroMarkov
    /\ loaded = 0
    /\ loadTrace = <<>>
    /\ markov = ZeroMarkov
    /\ autos = [v \in Symbols |-> [Iteration |-> 0, Set |-> <<>>]]
    /\ iteration = 0
    /\ trained = 0
    /\ passes = 0
    /\ str = <<>>
    /\ replayed = 0
    /\ step = 0
    /\ gen = NoGen
    /\ added = <<>>

\* first program: load has read the corpus and made the maps; autos are built
Init ==
    /\ pc = "load"
    /\ Data \in [1..DataLen -> Symbols]
    /\ prompt \in Prompts
    /\ h = NewHistogram(1)
    /\ InitCommon

\* one iteration of "for _, value := range data" in load
LoadStep ==
    /\ pc = "load"
    /\ loaded < Len(Data)
    /\ LET value == Data[loaded + 1]
       IN  /\ Model' = [ii \in Orders |-> Count(Model[ii], loadMarkov[ii], value)]
           /\ loadMarkov' = [ii \in Orders |-> loadShift(loadMarkov[ii], value, ii)]
    /\ loadTrace' = Append(loadTrace, loadMarkov)
    /\ loaded' = loaded + 1
    /\ UNCHANGED <<pc, Data, markov, autos, iteration, trained, passes, prompt,
                   str, replayed, step, gen, h, added>>

\* markov := [order]Markov{}; iteration := 0; Iterate(&markov, 0)
TrainStart ==
    /\ pc = "load"
    /\ loaded = Len(Data)
    /\ markov' = Iterate(ZeroMarkov, 0)
    /\ iteration' = 0
    /\ pc' = "train"
    /\ UNCHANGED <<Data, Model, loadMarkov, loaded, loadTrace, autos, trained,
                   passes, prompt, str, replayed, step, gen, h, added>>

\* one iteration of the training loop.  The forward pass and the gradient run
\* whatever Lookup returned; the engine's loss may be NaN or Inf, which ends main.
TrainStep ==
    /\ pc = "train"
    /\ trained < TrainLen
    /\ LET value == Data[trained + 1]
           vector == Lookup(markov, Model)
       IN  \E nan \in BOOLEAN :
             /\ passes' = passes + 1
             /\ IF nan
                THEN /\ pc' = "aborted"
                     /\ UNCHANGED <<autos, iteration, markov, trained>>
                ELSE /\ autos' = Train(autos, value, vector)
                     /\ iteration' = iteration + 1
                     /\ markov' = Iterate(markov, value)
                     /\ trained' = trained + 1
                     /\ pc' = "train"
    /\ UNCHANGED <<Data, Model, loadMarkov, loaded, loadTrace, prompt, str,
                   replayed, step, gen, h, added>>

\* str := []byte(prompt); markov = [order]Markov{}
PromptStart ==
    /\ pc = "train"
    /\ trained = TrainLen
    /\ str' = prompt
    /\ markov' = ZeroMarkov
    /\ replayed' = 0
    /\ pc' = IF Len(prompt) = 0 THEN "generate" ELSE "replay"
    /\ UNCHANGED <<Data, Model, loadMarkov, loaded, loadTrace, autos, iteration,
                   trained, passes, prompt, step, gen, h, added>>

\* one iteration of "for _, value := range str { Iterate(&markov, value) }"
PromptStep ==
    /\ pc = "replay"
    /\ replayed < Len(prompt)
    /\ markov' = Iterate(markov, prompt[replayed + 1])
    /\ replayed' = replayed + 1
    /\ pc' = IF replayed + 1 = Len(prompt) THEN "generate" ELSE "replay"
    /\ UNCHANGED <<Data, Model, loadMarkov, loaded, loadTrace, autos, iteration,
                   trained, passes, prompt, str, step, gen, h, added>>

\* one iteration of "for range 33": every autoencoder scores the feature
\* (whatever Lookup returned), the losses become scores, one draw selects
GenStep ==
    /\ pc = "generate"
    /\ step < GenSteps
    /\ \E losses \in [Symbols -> Losses], u \in Draws :
         LET vector == Lookup(markov, Model)
             max == maxFrom(losses, 0, 0)
             dist == [i \in Symbols |-> max - losses[i]]
             sum == SumTo(dist, MaxSym)
             picked == Select(dist, sum, u)
         IN  /\ gen' = [vector |-> vector, losses |-> losses, distribution |-> dist,
                        sum |-> sum, selected |-> u, picked |-> picked]
             /\ str' = str \o picked
             /\ markov' = IF picked = <<>> THEN markov ELSE Iterate(markov, picked[1])
    /\ passes' = passes + Cardinality(Symbols)
    /\ step' = step + 1
    /\ UNCHANGED <<pc, Data, Model, loadMarkov, loaded, loadTrace, autos, iteration,
                   trained, prompt, replayed, h, added>>

\* fmt.Println(string(str))
Done ==
    /\ pc = "generate"
    /\ step = GenSteps
    /\ pc' = "done"
    /\ UNCHANGED <<Data, Model, loadMarkov, loaded, loadTrace, markov, autos,
                   iteration, trained, passes, prompt, str, replayed, step, gen,
                   h, added>>

Next == LoadStep \/ TrainStart \/ TrainStep \/ PromptStart \/ PromptStep
        \/ GenStep \/ Done

Spec == Init /\ [][Next]_vars

\* second program: histogram := NewHistogram(size)
InitHist ==
    /\ pc = "hist"
    /\ Data = [i \in 1..DataLen |-> 0]
    /\ prompt = <<>>
    /\ h \in {NewHistogram(size) : size \in 1..MaxSize}
    /\ InitCommon

\* histogram.Add(s)
HistAdd ==
    /\ pc = "hist"
    /\ Len(added) < MaxAdds
    /\ \E s \in Symbols :
         /\ h' = Add(h, s)
         /\ added' = Append(added, s)
    /\ UNCHANGED <<pc, Data, Model, loadMarkov, loaded, loadTrace, markov, autos,
                   iteration, trained, passes, prompt, str, replayed, step, gen>>

NextHist == HistAdd

SpecHist == InitHist /\ [][NextHist]_vars

(***************************************************************************)
(* The claims.                                                             *)
(***************************************************************************)

\* the orders whose table contains the context of that order as a key
Hits(m, model) == {k \in Orders : m[k] \in DOMAIN model[k]}

MaxOf(S) == CHOOSE x \in S : \A y \in S : y <= x

MinOf(S) == CHOOSE x \in S : \A y \in S : x <= y

\* what C1 says Lookup returns for the context m
LongestHit(m, model) ==
    LET hits == Hits(m, model)
        result == Lookup(m, model)
    IN  /\ (result = Nil) <=> (hits = {})
        /\ hits # {} =>
             LET k == MaxOf(hits)
                 vector == model[k][m[k]]
                 total == SumTo(vector, MaxSym)
             IN  /\ total > 0
                 /\ DOMAIN result = Symbols
                 /\ \A s \in Symbols : result[s] = <<vector[s], total>>

\* C1: for every model and context, Lookup returns the count vector, each count
\* divided by the vector's sum, of the highest order whose table contains the
\* context of that order as a key, whatever the lower orders hold; it returns
\* nil if and only if no order's table contains its context.
C1_LookupLongestHit ==
    /\ LongestHit(markov, Model)
    /\ LongestHit(loadMarkov, Model)

\* Lookup answers from an order below the highest although a still lower order
\* holds the context too, with other counts
C1_Witness ==
    /\ pc \in {"generate", "done"}
    /\ LET hits == Hits(markov, Model)
       IN  /\ hits # {}
           /\ MaxOf(hits) < order - 1
           /\ \E k \in hits :
                /\ k < MaxOf(hits)
                /\ Normalize(Model[k][markov[k]]) # Lookup(markov, Model)

\* the positions ingested so far at which the order-k working context was c
Observed(k, c) == {p \in 1..loaded : loadTrace[p][k] = c}

RECURSIVE TableTotal(_, _)
\* the sum of all counts of the keys S of a table
TableTotal(table, S) ==
    IF S = {} THEN 0
    ELSE LET c == CHOOSE x \in S : TRUE
         IN  SumTo(table[c], MaxSym) + TableTotal(table, S \ {c})

\* C2: after ingesting a sequence, for every order k and every key c of table k,
\* the count of symbol s under c is the number of positions whose order-k working
\* context was c and whose symbol is s, the counts of c sum to the number of
\* positions whose working context was c, and every table's counts sum to the
\* length of the sequence.
C2_CountsAreObservations ==
    \A k \in Orders :
        /\ DOMAIN Model[k] = {loadTrace[p][k] : p \in 1..loaded}
        /\ \A c \in DOMAIN Model[k] :
             /\ \A s \in Symbols :
                  Model[k][c][s] =
                      Cardinality({p \in Observed(k, c) : Data[p] = s})
             /\ SumTo(Model[k][c], MaxSym) = Cardinality(Observed(k, c))
        /\ TableTotal(Model[k], DOMAIN Model[k]) = loaded

\* the whole corpus is ingested and some context was seen before two symbols
C2_Witness ==
    /\ pc = "train"
    /\ loaded = DataLen
    /\ \E k \in Orders : \E c \in DOMAIN Model[k] :
         /\ Cardinality(Observed(k, c)) >= 2
         /\ \E s, t \in Symbols : s # t /\ Model[k][c][s] > 0 /\ Model[k][c][t] > 0

\* C3: every generation step appends exactly one byte, also when all losses
\* are equal, so the printed output has length len(prompt) + GenSteps.
C3_OutputLength ==
    pc = "done" => Len(str) = Len(prompt) + GenSteps

\* C4: a position at which Lookup returns nil is a no-op: no forward pass,
\* gradient or optimizer update runs, nothing is scored, the run does not
\* abort and the loop goes on.
C4_NilIsNoOp ==
    [][ /\ (pc = "train" /\ trained < TrainLen /\ Lookup(markov, Model) = Nil) =>
             /\ passes' = passes
             /\ autos' = autos
             /\ iteration' = iteration
             /\ pc' = "train"
        /\ (pc = "generate" /\ step < GenSteps /\ Lookup(markov, Model) = Nil) =>
             /\ passes' = passes
             /\ autos' = autos
             /\ pc' = "generate"
      ]_vars

\* C5: in a generation step with total score > 0 the byte selected is the
\* smallest i with u < (score_0 + ... + score_i) / total, where score_j is the
\* maximum loss minus loss_j; a candidate of maximum loss is never selected.
C5_InverseCDF ==
    (step > 0 /\ gen.sum > 0) =>
        LET m == MaxOf({gen.losses[j] : j \in Symbols})
            crossing == {i \in Symbols :
                            gen.selected * gen.sum
                              < SumTo(gen.distribution, i) * Cardinality(Draws)}
        IN  /\ \A j \in Symbols : gen.distribution[j] = m - gen.losses[j]
            /\ gen.sum = SumTo(gen.distribution, MaxSym)
            /\ gen.picked = IF crossing = {} THEN <<>> ELSE <<MinOf(crossing)>>
            /\ gen.picked # <<>> =>
                 /\ gen.losses[gen.picked[1]] < m
                 /\ str[Len(str)] = gen.picked[1]

\* a step whose draw passes over a candidate of positive score
C5_Witness ==
    /\ step > 0
    /\ gen.sum > 0
    /\ gen.selected > 0
    /\ gen.picked # <<>>
    /\ \E j \in Symbols : j < gen.picked[1] /\ gen.distribution[j] > 0

\* C6: a training step at a position whose byte is v changes autoencoder v
\* only, and no training step changes the frequency tables.
C6_TrainFrame ==
    [][ (pc = "train" /\ trained < TrainLen) =>
            /\ Model' = Model
            /\ \A w \in Symbols : w # Data[trained + 1] => autos'[w] = autos[w]
      ]_vars

\* one autoencoder has been trained and another is as it was built
C6_Witness ==
    /\ pc = "train"
    /\ trained >= 1
    /\ autos[Data[trained]].Iteration >= 1
    /\ \E w \in Symbols : autos[w] = [Iteration |-> 0, Set |-> <<>>]

\* C7: the step counter of autoencoder v is the number of completed updates at
\* positions whose byte is v, the counters sum to the global iteration, and the
\* n-th update of v used the exponent n (v's counter before it, plus 1).
C7_PerAutoCounter ==
    /\ \A v \in Symbols :
         /\ autos[v].Iteration = Cardinality({p \in 1..trained : Data[p] = v})
         /\ Len(autos[v].Set) = autos[v].Iteration
         /\ \A n \in 1..Len(autos[v].Set) : autos[v].Set[n].pow = n
    /\ SumTo([v \in Symbols |-> autos[v].Iteration], MaxSym) = iteration
    /\ iteration = trained

\* two autoencoders have each been updated, so the global count is above both
C7_Witness ==
    \E v, w \in Symbols :
        /\ v # w
        /\ autos[v].Iteration >= 1
        /\ autos[w].Iteration >= 1
        /\ iteration > autos[v].Iteration

\* next is prev after Iterate(prev, s) as C8 describes it
IsShift(prev, next, s) ==
    \A k \in Orders : \A j \in Orders :
        next[k][j] = IF j = 0 THEN s
                     ELSE IF j <= k THEN prev[k][j - 1]
                     ELSE prev[k][j]

\* C8: Iterate(markov, s) is a pure shift at every order k: markov[k][0] = s,
\* markov[k][j] is the previous markov[k][j-1] for 1 <= j <= k, and the entries
\* j > k are unchanged.  Checked at every call of Iterate.
C8_IterateShift ==
    [][ /\ (pc = "load" /\ pc' = "train") => IsShift(ZeroMarkov, markov', 0)
        /\ (pc = "train" /\ trained' = trained + 1) =>
               IsShift(markov, markov', Data[trained + 1])
        /\ (pc = "replay") => IsShift(markov, markov', prompt[replayed + 1])
        /\ (pc = "generate" /\ step' = step + 1 /\ gen'.picked # <<>>) =>
               IsShift(markov, markov', gen'.picked[1])
        /\ (pc = "generate" /\ step' = step + 1 /\ gen'.picked = <<>>) =>
               markov' = markov
      ]_vars

\* the longest order has carried a symbol one place on that order 0 dropped
C8_Witness ==
    /\ markov[order - 1][0] # 0
    /\ markov[order - 1][1] # 0
    /\ markov[0][0] # 0
    /\ markov[0][1] = 0

\* C9: before training position p the context equals, at every order, the
\* working context ingestion held before counting position p, so Lookup hits
\* the table of the highest order: no backoff and never nil in training.
C9_TrainingHitsTopOrder ==
    (pc = "train" /\ trained < TrainLen) =>
        /\ markov = loadTrace[trained + 1]
        /\ markov[order - 1] \in DOMAIN Model[order - 1]
        /\ Lookup(markov, Model) # Nil
        /\ Lookup(markov, Model) = Normalize(Model[order - 1][markov[order - 1]])

\* a training position past the first, where a lower order holds other counts
C9_Witness ==
    /\ pc = "train"
    /\ trained >= 1
    /\ trained < TrainLen
    /\ markov[order - 1][0] # 0
    /\ Model[0][markov[0]] # Model[order - 1][markov[order - 1]]

\* the last min(number of calls, Size) symbols given to Add
Window == {i \in 1..Len(added) : i > Len(added) - h.Size}

\* C10: after any sequence of Add calls Vector[s] is the number of occurrences
\* of s among the last min(calls, Size) added symbols, and Vector sums to
\* min(calls, Size).
C10_SlidingWindow ==
    pc = "hist" =>
        /\ \A s \in Symbols :
             h.Vector[s] = Cardinality({i \in Window : added[i] = s})
        /\ SumTo(h.Vector, MaxSym) = Cardinality(Window)

====
